---------------------------- MODULE Spec2Model ----------------------------
(***************************************************************************)
(* Model of the mercury-rs client: src/src/lib.rs (Mercury::parse,         *)
(* build_url, ParserResult), src/src/article.rs (Article and its serde     *)
(* attributes, serde_uri, serde_uri_opt) and the cross-thread wrapper of   *)
(* src/examples/rocket/src/reader.rs (Reader::parse, worker).              *)
(*                                                                         *)
(* Text is a sequence of tokens (a token stands for a run of characters),  *)
(* so that URI parsing, URI formatting, date parsing and JSON reading are  *)
(* computations on text and not identities.  A response body is a sequence *)
(* of JSON tokens, delivered in chunks.                                    *)
(***************************************************************************)
EXTENDS Integers, Sequences, FiniteSets, TLC

VARIABLES
    \* ---- decoding of one buffered body (serde_json::from_slice, the match)
    dPc,        \* "body" | "decoded" | "serialized" | "redecoded"
    dBody,      \* the buffered body bytes
    dOut,       \* outcome of the closure of lib.rs:217-220 on dBody
    dJson,      \* serde_json::to_vec of the decoded Article
    dOut2,      \* outcome of decoding dJson again
    \* ---- Mercury::parse calls in flight on one client and its clones
    key,        \* Inner.key, shared by the client and its clones
    pc,         \* per call: "idle" | "built" | "requested" | "done"
    resource,   \* per call: the resource string given to parse
    built,      \* per call: the result of build_url(resource)
    requests,   \* the requests the hyper client was asked to send, in order
    response,   \* per call: what the server answers (body chunks or a failure)
    wire,       \* per call: body chunks not yet delivered
    buf,        \* per call: body bytes collected so far
    outcome,    \* per call: what the future resolved to
    finished,   \* the calls in the order their futures resolved
    \* ---- Reader and its worker thread
    rPc,        \* per caller: "idle" | "waiting" | "returned"
    rUrl,       \* per caller: the url given to Reader::parse
    rQueue,     \* the unbounded mpsc channel: messages (cb, url), cb = caller
    rCur,       \* the message the for_each closure is working on, 0 = none
    rResp,      \* per caller: what the server answers to its request
    rSlot,      \* per caller: the one-shot channel: number of values sent
    rReply,     \* per caller: the value sent on its one-shot channel
    rGot,       \* per caller: what Reader::parse returned
    rServed,    \* the callers in the order the worker took their message
    rSent       \* the callers in the order their message entered the channel

decodeVars == <<dPc, dBody, dOut, dJson, dOut2>>
clientVars == <<key, pc, resource, built, requests, response, wire, buf, outcome, finished>>
readerVars == <<rPc, rUrl, rQueue, rCur, rResp, rSlot, rReply, rGot, rServed, rSent>>
vars == <<decodeVars, clientVars, readerVars>>

----------------------------------------------------------------------------
(* Bounds of the model *)

\* how many keys of the reference body carry an unusual value at once
MaxEdits == 2
\* how many parse calls are in flight on the client
NumCalls == 2
\* how many callers submit a request to the Reader
NumCallers == 2

----------------------------------------------------------------------------
(* Text *)

\* runs of characters that may appear in a URI and are no separator
Words == {"mercury.postlight.com", "parser", "url=", "example.com", "img",
          "w=1", "top", "page", "T", "A", "ltr", "rtl"}
Separators == {"https:", "//", "/", "?", "#"}
\* every other token (a space, a control character, "<p>x</p>", ...) holds a
\* character no URI may hold
Legal == Words \cup Separators

RECURSIVE Before(_, _)
\* the prefix of text s before the first token c
Before(s, c) ==
    IF s = <<>> \/ Head(s) = c THEN <<>> ELSE <<Head(s)>> \o Before(Tail(s), c)

\* the text after the first token c (empty when there is none)
After(s, c) ==
    LET n == Len(Before(s, c)) IN
    IF n >= Len(s) THEN <<>> ELSE SubSeq(s, n + 2, Len(s))

Has(s, c) == \E i \in 1..Len(s) : s[i] = c

\* the element of a one-element set: {e(x) : x \in {v}} computes v once
Only(S) == CHOOSE x \in S : TRUE

----------------------------------------------------------------------------
(* Uri: str::parse::<Uri>() and format!("{}", uri) *)

NoUri == [ok |-> FALSE, scheme |-> "", authority |-> "", path |-> <<>>,
          hasQuery |-> FALSE, query |-> <<>>]

MkUri(scheme, authority, rest) ==
    [ok |-> TRUE, scheme |-> scheme, authority |-> authority,
     path |-> IF Before(rest, "?") = <<>> /\ scheme # "" THEN <<"/">>
              ELSE Before(rest, "?"),
     hasQuery |-> Has(rest, "?"), query |-> After(rest, "?")]

\* s.parse::<Uri>(): the fragment is dropped, an absolute URI needs an
\* authority and gets the path "/" when it has none
ParseUri(s) ==
    LET t == Before(s, "#") IN
    IF t = <<>> THEN NoUri
    ELSE IF \E i \in 1..Len(t) : t[i] \notin Legal THEN NoUri
    ELSE IF t[1] = "https:" THEN
        IF Len(t) >= 3 /\ t[2] = "//" /\ t[3] \in Words
           /\ (Len(t) = 3 \/ t[4] \in {"/", "?"})
        THEN MkUri("https", t[3], SubSeq(t, 4, Len(t)))
        ELSE NoUri
    ELSE IF t[1] = "/" THEN MkUri("", "", t)
    ELSE IF Len(t) = 1 /\ t[1] \in Words THEN MkUri("", t[1], <<>>)
    ELSE NoUri

\* format!("{}", uri)
DisplayUri(u) ==
    (IF u.scheme = "" THEN <<>> ELSE <<"https:", "//">>)
    \o (IF u.authority = "" THEN <<>> ELSE <<u.authority>>)
    \o u.path
    \o (IF u.hasQuery THEN <<"?">> \o u.query ELSE <<>>)

----------------------------------------------------------------------------
(* DateTime<Utc>: an RFC 3339 text is <<local hour, offset>>; the value is  *)
(* the hour in UTC; it is written back with the offset Z                    *)

HourOf(tok) == CASE tok = "T06" -> 6 [] tok = "T08" -> 8 [] tok = "T10" -> 10
                 [] OTHER -> -1
OffsetOf(tok) == CASE tok = "Z" -> 0 [] tok = "+02:00" -> 2 [] OTHER -> -1
HourTok(h) == CASE h = 6 -> "T06" [] h = 8 -> "T08" [] h = 10 -> "T10"
                [] OTHER -> "T??"

ParseDate(s) ==
    IF Len(s) = 2 /\ HourOf(s[1]) >= 0 /\ OffsetOf(s[2]) >= 0
    THEN [ok |-> TRUE, v |-> HourOf(s[1]) - OffsetOf(s[2])]
    ELSE [ok |-> FALSE, v |-> 0]

FormatDate(h) == <<HourTok(h), "Z">>

----------------------------------------------------------------------------
(* JSON tokens and values *)

Tok(t, s, n) == [t |-> t, s |-> s, n |-> n]
Absent == Tok("absent", <<>>, 0)     \* the key is not in the object
Null == Tok("null", <<>>, 0)
Bool == Tok("bool", <<>>, 0)
Str(s) == Tok("str", s, 0)
Num(n) == Tok("num", <<>>, n)
Key(k) == Tok("key", <<k>>, 0)
Open == Tok("punct", <<"{">>, 0)
Close == Tok("punct", <<"}">>, 0)
ValueTypes == {"null", "bool", "str", "num"}

\* the fields of Article in declaration order, then those of ParserResult::Err
ArticleKeys == <<"author", "content", "date_published", "dek", "direction",
                 "excerpt", "lead_image_url", "next_page_url", "rendered_pages",
                 "title", "total_pages", "url", "word_count">>
ErrKeys == <<"message", "messages">>
AllKeys == ArticleKeys \o ErrKeys
KeySet(ks) == {ks[i] : i \in 1..Len(ks)}

RECURSIVE Members(_, _)
Members(obj, ks) ==
    IF ks = <<>> THEN <<>>
    ELSE (IF obj[Head(ks)].t = "absent" THEN <<>>
          ELSE <<Key(Head(ks)), obj[Head(ks)]>>) \o Members(obj, Tail(ks))

\* the bytes of a JSON object
ToBytes(obj) == <<Open>> \o Members(obj, AllKeys) \o <<Close>>

NoObj == [k \in KeySet(AllKeys) |-> Absent]

\* the JSON reader: the bytes are one scalar, or an object { key value ... }
IsObjectText(b) ==
    /\ Len(b) >= 2 /\ Len(b) % 2 = 0
    /\ b[1] = Open /\ b[Len(b)] = Close
    /\ \A i \in 2..(Len(b) - 1) :
          IF i % 2 = 0 THEN b[i].t = "key" ELSE b[i].t \in ValueTypes

Positions(b, k) == {i \in 2..(Len(b) - 1) : i % 2 = 0 /\ b[i] = Key(k)}

Lookup(b, k) ==
    IF Positions(b, k) = {} THEN Absent
    ELSE b[(CHOOSE i \in Positions(b, k) : \A j \in Positions(b, k) : i <= j) + 1]

\* serde_json reading the bytes into the buffered Content of an untagged enum
ReadJson(b) ==
    IF IsObjectText(b)
    THEN [kind |-> "object", obj |-> [k \in KeySet(AllKeys) |-> Lookup(b, k)],
          dup |-> {k \in KeySet(AllKeys) : Cardinality(Positions(b, k)) > 1}]
    ELSE IF Len(b) = 1 /\ b[1].t \in ValueTypes
    THEN [kind |-> "scalar", obj |-> NoObj, dup |-> {}]
    ELSE [kind |-> "invalid", obj |-> NoObj, dup |-> {}]


----------------------------------------------------------------------------
(* Deserialize for the fields of Article (article.rs:5-45) *)

Ok(v) == [ok |-> TRUE, v |-> v]
Fail(filler) == [ok |-> FALSE, v |-> filler]

None(filler) == [some |-> FALSE, v |-> filler]
Some(v) == [some |-> TRUE, v |-> v]

\* Option<String> with no attribute: a missing key and null are None
OptionString(v) ==
    CASE v.t \in {"absent", "null"} -> Ok(None(<<>>))
      [] v.t = "str" -> Ok(Some(v.s))
      [] OTHER -> Fail(None(<<>>))

\* String with #[serde(default)]: a missing key is the empty string
StringOrDefault(v) ==
    CASE v.t = "absent" -> Ok(<<>>)
      [] v.t = "str" -> Ok(v.s)
      [] OTHER -> Fail(<<>>)

\* Option<DateTime<Utc>> with no attribute
OptionDate(v) ==
    CASE v.t \in {"absent", "null"} -> Ok(None(0))
      [] v.t = "str" -> IF ParseDate(v.s).ok THEN Ok(Some(ParseDate(v.s).v))
                        ELSE Fail(None(0))
      [] OTHER -> Fail(None(0))

\* TextDirection, #[serde(rename_all = "lowercase")], with no default
\* attribute on the field: a missing key is the error "missing field"
TextDirection(v) ==
    CASE v.t = "str" /\ v.s = <<"ltr">> -> Ok("Ltr")
      [] v.t = "str" /\ v.s = <<"rtl">> -> Ok("Rtl")
      [] OTHER -> Fail("Ltr")

default_page_field_value == 1

\* u64 with #[serde(default = ...)] or #[serde(default)]
U64OrDefault(v, d) ==
    CASE v.t = "absent" -> Ok(d)
      [] v.t = "num" /\ v.n >= 0 -> Ok(v.n)
      [] OTHER -> Fail(0)

\* serde_uri::deserialize: String::deserialize(..)?.parse().map_err(custom)
serde_uri_deserialize(v) ==
    IF v.t = "str" /\ ParseUri(v.s).ok THEN Ok(ParseUri(v.s)) ELSE Fail(NoUri)

\* serde_uri_opt::deserialize: Option::<String>::deserialize(..)?, then
\* Some(value) => value.parse().map(Some).map_err(custom), None => Ok(None)
serde_uri_opt_deserialize(v) ==
    CASE v.t = "null" -> Ok(None(NoUri))
      [] v.t = "str" -> IF ParseUri(v.s).ok THEN Ok(Some(ParseUri(v.s)))
                        ELSE Fail(None(NoUri))
      [] OTHER -> Fail(None(NoUri))

\* a field with #[serde(with = ...)] and no default: a missing key is the
\* error "missing field", the function is not called
WithOrMissing(v, r) == IF v.t = "absent" THEN Fail(r.v) ELSE r

\* the thirteen fields, each read from its key
ArticleFields(o) ==
    [author |-> OptionString(o["author"]),
     content |-> StringOrDefault(o["content"]),
     date_published |-> OptionDate(o["date_published"]),
     dek |-> OptionString(o["dek"]),
     direction |-> TextDirection(o["direction"]),
     excerpt |-> StringOrDefault(o["excerpt"]),
     lead_image_url |-> WithOrMissing(o["lead_image_url"],
                            serde_uri_opt_deserialize(o["lead_image_url"])),
     next_page_url |-> WithOrMissing(o["next_page_url"],
                            serde_uri_opt_deserialize(o["next_page_url"])),
     rendered_pages |-> U64OrDefault(o["rendered_pages"], default_page_field_value),
     title |-> StringOrDefault(o["title"]),
     total_pages |-> U64OrDefault(o["total_pages"], default_page_field_value),
     url |-> WithOrMissing(o["url"], serde_uri_deserialize(o["url"])),
     word_count |-> U64OrDefault(o["word_count"], 0)]

FieldNames == KeySet(ArticleKeys)

\* #[derive(Deserialize)] struct Article: every field must be read
DeserializeArticle(j) ==
    Only({[ok |-> /\ j.kind = "object"
                  /\ j.dup \cap FieldNames = {}
                  /\ \A k \in FieldNames : f[k].ok,
           v |-> [k \in FieldNames |-> f[k].v]] : f \in {ArticleFields(j.obj)}})

\* ParserResult::Err { msg: Option<String> as "message",
\*                     msgs: String, default, as "messages" }
DeserializeErr(j) ==
    LET msg == OptionString(j.obj["message"])
        msgs == StringOrDefault(j.obj["messages"])
    IN [ok |-> /\ j.kind = "object"
               /\ j.dup \cap KeySet(ErrKeys) = {}
               /\ msg.ok /\ msgs.ok,
        msg |-> msg.v, msgs |-> msgs.v]

NoArticle == DeserializeArticle(ReadJson(<<>>)).v

\* the variants tried in the other order
ParserResult_ErrFirst(j) ==
    IF DeserializeErr(j).ok
    THEN [variant |-> "Err", article |-> NoArticle,
          msg |-> DeserializeErr(j).msg, msgs |-> DeserializeErr(j).msgs]
    ELSE IF DeserializeArticle(j).ok
    THEN [variant |-> "Ok", article |-> DeserializeArticle(j).v,
          msg |-> None(<<>>), msgs |-> <<>>]
    ELSE [variant |-> "none", article |-> NoArticle,
          msg |-> None(<<>>), msgs |-> <<>>]

\* #[serde(untagged)] enum ParserResult { Ok(Article), Err { .. } }: the
\* variants are tried in declaration order
ParserResult(j) ==
    Only({IF a.ok
          THEN [variant |-> "Ok", article |-> a.v,
                msg |-> None(<<>>), msgs |-> <<>>]
          ELSE IF DeserializeErr(j).ok
          THEN [variant |-> "Err", article |-> NoArticle,
                msg |-> DeserializeErr(j).msg, msgs |-> DeserializeErr(j).msgs]
          ELSE [variant |-> "none", article |-> NoArticle,
                msg |-> None(<<>>), msgs |-> <<>>] : a \in {DeserializeArticle(j)}})

----------------------------------------------------------------------------
(* What a Response resolves to: Ok(Article) or an Error (error.rs)          *)

Resolved(kind, article, text, detail) ==
    [kind |-> kind, article |-> article, text |-> text, detail |-> detail]
Pending == Resolved("pending", NoArticle, <<>>, "")
OkArticle(a) == Resolved("Article", a, <<>>, "")
\* bail!(text): ErrorKind::Msg, the error the API reports
MsgError(text) == Resolved("Msg", NoArticle, text, "")
\* foreign link Json(serde_json::Error)
JsonError == Resolved("Json", NoArticle, <<>>, "")
\* foreign link Http(hyper::Error); From<UriError> goes through it
HttpError(detail) == Resolved("Http", NoArticle, <<>>, detail)

\* the fallback taken even when the option holds a value
unwrap_or_ignoring(opt, other) == other

\* Option::unwrap_or
unwrap_or(opt, other) == IF opt.some THEN opt.v ELSE other

\* match serde_json::from_slice(&body)? { Ok(article) => Ok(article),
\*                                         Err { msg, msgs } => bail!(..) }
MatchResult(r) ==
    IF r.variant = "none" THEN JsonError
    ELSE IF r.variant = "Ok" THEN OkArticle(r.article)
    ELSE MsgError(unwrap_or(r.msg, r.msgs))

\* the closure of lib.rs:217-220 on the collected body
DecodeBody(body) ==
    Only({IF j.kind = "invalid" THEN JsonError
          ELSE Only({MatchResult(r) : r \in {ParserResult(j)}}) :
          j \in {ReadJson(body)}})

----------------------------------------------------------------------------
(* Serialize for Article *)

serde_uri_serialize(uri) == Str(DisplayUri(uri))

\* an absent optional URI left out of the output instead of written as null
serde_uri_opt_serialize_skipping(uri) ==
    IF uri.some THEN serde_uri_serialize(uri.v) ELSE Absent

serde_uri_opt_serialize(uri) ==
    IF uri.some THEN serde_uri_serialize(uri.v) ELSE Null

SerializeOptionString(o) == IF o.some THEN Str(o.v) ELSE Null
SerializeOptionDate(o) == IF o.some THEN Str(FormatDate(o.v)) ELSE Null
SerializeDirection(d) == IF d = "Ltr" THEN Str(<<"ltr">>) ELSE Str(<<"rtl">>)

\* #[derive(Serialize)] struct Article: every field but _ext is written
SerializeArticle(a) ==
    [k \in KeySet(AllKeys) |->
        CASE k = "author" -> SerializeOptionString(a.author)
          [] k = "content" -> Str(a.content)
          [] k = "date_published" -> SerializeOptionDate(a.date_published)
          [] k = "dek" -> SerializeOptionString(a.dek)
          [] k = "direction" -> SerializeDirection(a.direction)
          [] k = "excerpt" -> Str(a.excerpt)
          [] k = "lead_image_url" -> serde_uri_opt_serialize(a.lead_image_url)
          [] k = "next_page_url" -> serde_uri_opt_serialize(a.next_page_url)
          [] k = "rendered_pages" -> Num(a.rendered_pages)
          [] k = "title" -> Str(a.title)
          [] k = "total_pages" -> Num(a.total_pages)
          [] k = "url" -> serde_uri_serialize(a.url)
          [] k = "word_count" -> Num(a.word_count)
          [] OTHER -> Absent]


----------------------------------------------------------------------------
(* Response bodies the server may send *)

\* a body with every key of both shapes
Base ==
    [author |-> Str(<<"A">>),
     content |-> Str(<<"<p>x</p>">>),
     date_published |-> Str(<<"T10", "+02:00">>),
     dek |-> Str(<<"D">>),
     direction |-> Str(<<"rtl">>),
     excerpt |-> Str(<<"E">>),
     lead_image_url |-> Str(<<"https:", "//", "example.com", "/", "img", "?",
                              "w=1", "#", "top">>),
     next_page_url |-> Str(<<"/", "page">>),
     rendered_pages |-> Num(2),
     title |-> Str(<<"T">>),
     total_pages |-> Num(3),
     url |-> Str(<<"https:", "//", "example.com">>),
     word_count |-> Num(7),
     message |-> Str(<<"Invalid URL">>),
     messages |-> Str(<<"rate limited">>)]

\* values a key may carry instead of its value in Base
Unusual == {Absent, Null, Num(-1), Str(<<"ltr">>), Str(<<"no", " ", "uri">>)}

Without(obj, omit) ==
    [k \in KeySet(AllKeys) |-> IF k \in omit THEN Absent ELSE obj[k]]

\* Base with any set of keys left out
OmittedBodies == {ToBytes(Without(Base, omit)) : omit \in SUBSET KeySet(AllKeys)}

\* the article of Base with at most MaxEdits keys carrying an unusual value
EditedBodies ==
    {ToBytes([k \in KeySet(AllKeys) |->
                 IF k \in DOMAIN e THEN e[k] ELSE Without(Base, KeySet(ErrKeys))[k]]) :
        e \in UNION {[ks -> Unusual] :
                        ks \in {x \in SUBSET KeySet(AllKeys) : Cardinality(x) <= MaxEdits}}}

\* bytes that are no JSON object
OtherBodies ==
    {<<>>, <<Num(5)>>, <<Null>>,
     SubSeq(ToBytes(Base), 1, Len(ToBytes(Base)) - 1),
     <<Open, Key("message"), Str(<<"a">>), Key("message"), Str(<<"b">>), Close>>}

Bodies == OmittedBodies \cup EditedBodies \cup OtherBodies

----------------------------------------------------------------------------
(* Specification SpecDecode: one buffered body is decoded, the Article is   *)
(* serialized and deserialized again                                        *)

ClientUnused ==
    /\ key = "" /\ pc = <<>> /\ resource = <<>> /\ built = <<>> /\ requests = <<>>
    /\ response = <<>> /\ wire = <<>> /\ buf = <<>> /\ outcome = <<>>
    /\ finished = <<>>

ReaderUnused ==
    /\ rPc = <<>> /\ rUrl = <<>> /\ rQueue = <<>> /\ rCur = 0 /\ rResp = <<>>
    /\ rSlot = <<>> /\ rReply = <<>> /\ rGot = <<>> /\ rServed = <<>>
    /\ rSent = <<>>

DecodeUnused ==
    /\ dPc = "unused" /\ dBody = <<>> /\ dOut = Pending /\ dJson = <<>>
    /\ dOut2 = Pending

InitDecode ==
    /\ dPc = "body"
    /\ dBody \in Bodies
    /\ dOut = Pending /\ dJson = <<>> /\ dOut2 = Pending
    /\ ClientUnused /\ ReaderUnused

\* lib.rs:217-220 on the collected body
Decode ==
    /\ dPc = "body"
    /\ dOut' = DecodeBody(dBody)
    /\ dPc' = "decoded"
    /\ UNCHANGED <<dBody, dJson, dOut2, clientVars, readerVars>>

\* serde_json::to_vec(&article)
Serialize ==
    /\ dPc = "decoded" /\ dOut.kind = "Article"
    /\ dJson' = ToBytes(SerializeArticle(dOut.article))
    /\ dPc' = "serialized"
    /\ UNCHANGED <<dBody, dOut, dOut2, clientVars, readerVars>>

\* serde_json::from_slice::<Article>(&json)
Redecode ==
    /\ dPc = "serialized"
    /\ dOut2' = IF DeserializeArticle(ReadJson(dJson)).ok
                THEN OkArticle(DeserializeArticle(ReadJson(dJson)).v)
                ELSE JsonError
    /\ dPc' = "redecoded"
    /\ UNCHANGED <<dBody, dOut, dJson, clientVars, readerVars>>

NextDecode == Decode \/ Serialize \/ Redecode

SpecDecode == InitDecode /\ [][NextDecode]_vars


----------------------------------------------------------------------------
(* Properties of decoding (SpecDecode).  In each of them `sent` is the JSON *)
(* the server sent, key by key, and `j` the body as read.                   *)

Sent == ReadJson(dBody).obj
Decoded == dPc \in {"decoded", "serialized", "redecoded"}
IsText(v) == v.t = "str"

\* the body is read as the failure envelope: it is an object that is no
\* Article, `message` is a string, null or missing and `messages` a string or
\* missing
FailureEnvelope(j) ==
    /\ j.kind = "object"
    /\ j.dup = {}
    /\ ~DeserializeArticle(j).ok
    /\ j.obj["message"].t \in {"str", "null", "absent"}
    /\ j.obj["messages"].t \in {"str", "absent"}

\* C1: when the body decodes as the failure envelope, parse fails with an API
\* error whose text is the `message` field if it is present and non-null, and
\* otherwise the `messages` field, the empty string when that is missing too
C1_ApiErrorText ==
    Decoded =>
        \A j \in {ReadJson(dBody)} :
            FailureEnvelope(j) =>
                dOut = MsgError(IF IsText(j.obj["message"]) THEN j.obj["message"].s
                                ELSE IF IsText(j.obj["messages"])
                                THEN j.obj["messages"].s
                                ELSE <<>>)

\* both fields are present and the error carries `message`
C1_Witness ==
    /\ Decoded /\ FailureEnvelope(ReadJson(dBody))
    /\ Sent["message"] = Str(<<"Invalid URL">>)
    /\ Sent["messages"] = Str(<<"rate limited">>)
    /\ dOut = MsgError(<<"Invalid URL">>)

\* C2: a body with a valid `url` and any subset of the other article keys
\* omitted decodes to an Article with the defaults for the omitted keys
C2_OmittedKeysDefault ==
    (Decoded /\ dBody \in OmittedBodies) =>
        \A sent \in {Sent} :
            sent["url"] = Base["url"] =>
                /\ dOut.kind = "Article"
                /\ sent["direction"] = Absent => dOut.article.direction = "Ltr"
                /\ sent["rendered_pages"] = Absent => dOut.article.rendered_pages = 1
                /\ sent["total_pages"] = Absent => dOut.article.total_pages = 1
                /\ sent["content"] = Absent => dOut.article.content = <<>>
                /\ sent["excerpt"] = Absent => dOut.article.excerpt = <<>>
                /\ sent["title"] = Absent => dOut.article.title = <<>>
                /\ sent["word_count"] = Absent => dOut.article.word_count = 0
                /\ sent["author"] = Absent => ~dOut.article.author.some
                /\ sent["date_published"] = Absent =>
                      ~dOut.article.date_published.some
                /\ sent["dek"] = Absent => ~dOut.article.dek.some
                /\ sent["lead_image_url"] = Absent =>
                      ~dOut.article.lead_image_url.some
                /\ sent["next_page_url"] = Absent =>
                      ~dOut.article.next_page_url.some

\* the value of an optional URL key is missing, null or no URI
NoUsableUrl(v) == v \in {Absent, Null} \/ (IsText(v) /\ ~ParseUri(v.s).ok)

\* the body is the article of Base but for its two optional URL keys
SuccessShapedButOptionalUrls(j) ==
    /\ j.kind = "object"
    /\ \A k \in KeySet(ArticleKeys) \ {"lead_image_url", "next_page_url"} :
          j.obj[k] = Base[k]
    /\ \A k \in {"lead_image_url", "next_page_url"} :
          j.obj[k] = Base[k] \/ NoUsableUrl(j.obj[k])

\* C3: a success-shaped body whose lead_image_url or next_page_url is missing,
\* null or unparsable still gives an Article, with that field absent
C3_OptionalUrlSoft ==
    Decoded =>
        \A j \in {ReadJson(dBody)} :
            SuccessShapedButOptionalUrls(j) =>
                /\ dOut.kind = "Article"
                /\ NoUsableUrl(j.obj["lead_image_url"]) =>
                      ~dOut.article.lead_image_url.some
                /\ NoUsableUrl(j.obj["next_page_url"]) =>
                      ~dOut.article.next_page_url.some

\* an article-shaped object: every article key but `url` as in Base
ArticleButUrl(j) ==
    /\ j.kind = "object"
    /\ \A k \in KeySet(ArticleKeys) \ {"url"} : j.obj[k] = Base[k]

\* C4: parse fails with a deserialization error when the body is not valid
\* JSON, is JSON of neither shape, or is an article-shaped object whose `url`
\* is missing or no valid URI
C4_DeserializationError ==
    Decoded =>
        \A j \in {ReadJson(dBody)} :
            (\/ j.kind # "object"
             \/ (ArticleButUrl(j) /\ (\/ j.obj["url"] = Absent
                                      \/ ~IsText(j.obj["url"])
                                      \/ ~ParseUri(j.obj["url"].s).ok))) =>
                dOut = JsonError

\* C8: the Article shape is tried first: a body that decodes as an Article
\* resolves to that Article even when it carries `message` or `messages`, and
\* an API error is produced only for bodies that do not decode as an Article
C8_SuccessFirst ==
    Decoded =>
        \A a \in {DeserializeArticle(ReadJson(dBody))} :
            /\ a.ok => dOut = OkArticle(a.v)
            /\ dOut.kind = "Msg" => ~a.ok

\* an Article was returned for a body that also carries both envelope keys
C8_Witness ==
    /\ Decoded /\ dOut.kind = "Article"
    /\ IsText(Sent["message"]) /\ IsText(Sent["messages"])

\* the JSON written for the decoded Article, key by key
Written == ReadJson(dJson).obj
\* keys whose value is written back as it was read
PlainKeys == {"author", "content", "dek", "direction", "excerpt",
              "rendered_pages", "title", "total_pages", "word_count"}

\* C9: deserialize, serialize, deserialize gives the first Article again, and
\* the serialized object holds every field: the values that were sent, the
\* defaults for the keys that were not, URIs as strings, absent optional
\* values as null
C9_RoundTrip ==
    (dPc = "redecoded") =>
        \A sent \in {Sent}, written \in {Written} :
            /\ dOut2 = dOut
            /\ \A k \in KeySet(ArticleKeys) : written[k] # Absent
            /\ \A k \in PlainKeys :
                  sent[k] \notin {Absent, Null} => written[k] = sent[k]
            /\ \A k \in {"content", "excerpt", "title"} :
                  sent[k] = Absent => written[k] = Str(<<>>)
            /\ \A k \in {"rendered_pages", "total_pages"} :
                  sent[k] = Absent => written[k] = Num(1)
            /\ sent["word_count"] = Absent => written["word_count"] = Num(0)
            /\ \A k \in {"author", "dek", "date_published", "lead_image_url",
                         "next_page_url"} :
                  sent[k] \in {Absent, Null} => written[k] = Null
            /\ \A k \in {"lead_image_url", "next_page_url", "url"} :
                  sent[k] \notin {Absent, Null} =>
                     /\ IsText(written[k])
                     /\ ParseUri(written[k].s) = ParseUri(sent[k].s)
            /\ sent["date_published"] \notin {Absent, Null} =>
                  /\ IsText(written["date_published"])
                  /\ ParseDate(written["date_published"].s) =
                        ParseDate(sent["date_published"].s)

\* an Article with a defaulted field, an absent optional URI and a URI whose
\* text changes when written went round
C9_Witness ==
    /\ dPc = "redecoded" /\ dOut2.kind = "Article"
    /\ Sent["title"] = Absent
    /\ Sent["lead_image_url"] = Null
    /\ Written["url"] # Sent["url"]

----------------------------------------------------------------------------
(* Mercury::parse (lib.rs:205-224) and build_url (lib.rs:289-297) *)

ENDPOINT == <<"https:", "//", "mercury.postlight.com", "/", "parser">>

\* the text build_url composes
Raw(res) == ENDPOINT \o <<"?", "url=">> \o res

\* a build_url that falls back to the bare endpoint when the text is no URI
build_url_lenient(res) ==
    IF ParseUri(Raw(res)).ok THEN ParseUri(Raw(res)) ELSE ParseUri(ENDPOINT)

\* Ok(raw.parse()?): the Uri, or (ok = FALSE) the UriError
build_url(res) == ParseUri(Raw(res))

Calls == 1..NumCalls

\* resources given to parse: a URL, the empty string, a string with a space
Resources == {<<"https:", "//", "example.com">>, <<>>, <<"no", " ", "uri">>}

\* an article with the keys that must be present and a title
ArticleBody ==
    ToBytes([Without(Base, KeySet(AllKeys) \ {"direction", "title", "url"})
                EXCEPT !["lead_image_url"] = Null, !["next_page_url"] = Null])
ErrorBody == ToBytes(Without(Base, KeySet(ArticleKeys) \cup {"messages"}))

\* a body as the chunks hyper delivers it
InChunks(b) == <<SubSeq(b, 1, Len(b) \div 2), SubSeq(b, (Len(b) \div 2) + 1, Len(b))>>

\* what the server does with a request: it sends a body in chunks, or the
\* connection fails at some point of the exchange
Responses ==
    {[fail |-> FALSE, chunks |-> InChunks(b)] : b \in {ArticleBody, ErrorBody}}
    \cup {[fail |-> TRUE, chunks |-> InChunks(ArticleBody)]}
NoResponse == [fail |-> FALSE, chunks |-> <<>>]

RECURSIVE Flatten(_)
\* the bytes of a sequence of chunks
Flatten(chunks) ==
    IF chunks = <<>> THEN <<>> ELSE Head(chunks) \o Flatten(Tail(chunks))

Init ==
    /\ key \in {"k1", "k2"}
    /\ pc = [c \in Calls |-> "idle"]
    /\ resource = [c \in Calls |-> <<>>]
    /\ built = [c \in Calls |-> NoUri]
    /\ requests = <<>>
    /\ response = [c \in Calls |-> NoResponse]
    /\ wire = [c \in Calls |-> <<>>]
    /\ buf = [c \in Calls |-> <<>>]
    /\ outcome = [c \in Calls |-> Pending]
    /\ finished = <<>>
    /\ DecodeUnused /\ ReaderUnused

\* parse(&self, resource): the client is cloned, build_url runs, the future
\* is returned
Parse(c, res) ==
    /\ pc[c] = "idle"
    /\ resource' = [resource EXCEPT ![c] = res]
    /\ built' = [built EXCEPT ![c] = build_url(res)]
    /\ pc' = [pc EXCEPT ![c] = "built"]
    /\ UNCHANGED <<key, requests, response, wire, buf, outcome, finished,
                   decodeVars, readerVars>>

\* the future is polled and build_url had failed: From<UriError> for Error
ResolveUriError(c) ==
    /\ pc[c] = "built" /\ ~built[c].ok
    /\ outcome' = [outcome EXCEPT ![c] = HttpError("Uri")]
    /\ pc' = [pc EXCEPT ![c] = "done"]
    /\ finished' = Append(finished, c)
    /\ UNCHANGED <<key, resource, built, requests, response, wire, buf,
                   decodeVars, readerVars>>

\* the future is polled and build_url had succeeded: Request::new(Get, url),
\* the header X-Api-Key, merc.client().request(req)
SendRequest(c, resp) ==
    /\ pc[c] = "built" /\ built[c].ok
    /\ requests' = Append(requests, [call |-> c, method |-> "GET",
                                     uri |-> built[c], XApiKey |-> key])
    /\ response' = [response EXCEPT ![c] = resp]
    /\ wire' = [wire EXCEPT ![c] = resp.chunks]
    /\ pc' = [pc EXCEPT ![c] = "requested"]
    /\ UNCHANGED <<key, resource, built, buf, outcome, finished,
                   decodeVars, readerVars>>

\* every call's collection given the chunk
Collect_shared(bufs, c, chunk) == [d \in DOMAIN bufs |-> bufs[d] \o chunk]

\* resp.body().map(stream::iter_ok).flatten().collect(): the chunk's bytes
\* are added to this call's collection
Collect(bufs, c, chunk) == [bufs EXCEPT ![c] = @ \o chunk]

\* one chunk of the response body arrives
ReceiveChunk(c) ==
    /\ pc[c] = "requested" /\ wire[c] # <<>>
    /\ buf' = Collect(buf, c, Head(wire[c]))
    /\ wire' = [wire EXCEPT ![c] = Tail(@)]
    /\ UNCHANGED <<key, pc, resource, built, requests, response, outcome,
                   finished, decodeVars, readerVars>>

\* the failed request sent once more
TransportFailure_retrying(c) ==
    /\ pc[c] = "requested" /\ response[c].fail
    /\ Len(requests) < 2 * NumCalls
    /\ requests' = Append(requests, [call |-> c, method |-> "GET",
                                     uri |-> built[c], XApiKey |-> key])
    /\ UNCHANGED <<key, pc, resource, built, response, wire, buf, outcome,
                   finished, decodeVars, readerVars>>

\* the connection fails, before or between chunks: .map_err(Error::from);
\* the stream and what was collected are dropped with the future
TransportFailure(c) ==
    /\ pc[c] = "requested" /\ response[c].fail
    /\ outcome' = [outcome EXCEPT ![c] = HttpError("Io")]
    /\ pc' = [pc EXCEPT ![c] = "done"]
    /\ finished' = Append(finished, c)
    /\ wire' = [wire EXCEPT ![c] = <<>>]
    /\ buf' = [buf EXCEPT ![c] = <<>>]
    /\ UNCHANGED <<key, resource, built, requests, response, decodeVars, readerVars>>

\* the body is complete: the closure of lib.rs:217-220 consumes the
\* collection
Complete(c) ==
    /\ pc[c] = "requested" /\ ~response[c].fail /\ wire[c] = <<>>
    /\ outcome' = [outcome EXCEPT ![c] = DecodeBody(buf[c])]
    /\ pc' = [pc EXCEPT ![c] = "done"]
    /\ finished' = Append(finished, c)
    /\ buf' = [buf EXCEPT ![c] = <<>>]
    /\ UNCHANGED <<key, resource, built, requests, response, wire,
                   decodeVars, readerVars>>

Next ==
    \E c \in Calls :
        \/ \E res \in Resources : Parse(c, res)
        \/ ResolveUriError(c)
        \/ \E resp \in Responses : SendRequest(c, resp)
        \/ ReceiveChunk(c)
        \/ TransportFailure(c)
        \/ Complete(c)

Spec == Init /\ [][Next]_vars


----------------------------------------------------------------------------
(* Properties of Mercury::parse (Spec) *)

RequestsOf(c) == {i \in 1..Len(requests) : requests[i].call = c}

\* the composed text is a URI
Composes(c) == ParseUri(ENDPOINT \o <<"?", "url=">> \o resource[c]).ok

\* C5: when ENDPOINT + "?url=" + resource is no URI the call resolves to a
\* URL-format error and never issues a request; when it is one, the request
\* is a GET to exactly that URI
C5_UrlFormatError ==
    \A c \in Calls : pc[c] # "idle" =>
        IF Composes(c)
        THEN \A i \in RequestsOf(c) :
                /\ requests[i].method = "GET"
                /\ requests[i].uri.ok
                /\ DisplayUri(requests[i].uri) =
                      ENDPOINT \o <<"?", "url=">> \o resource[c]
        ELSE /\ RequestsOf(c) = {}
             /\ pc[c] \in {"built", "done"}
             /\ pc[c] = "done" => outcome[c] = HttpError("Uri")

\* a call resolved to the URL-format error while the other one sent a request
C5_Witness ==
    \E c, d \in Calls :
        /\ pc[c] = "done" /\ ~Composes(c) /\ outcome[c] = HttpError("Uri")
        /\ RequestsOf(c) = {}
        /\ RequestsOf(d) # {}

\* C6: a call issues at most one request, a GET with the client's key in
\* X-Api-Key, whatever its outcome; a transport failure is the call's
\* outcome, with no second request
C6_SingleRequest ==
    /\ \A i \in 1..Len(requests) :
          requests[i].method = "GET" /\ requests[i].XApiKey = key
    /\ \A c \in Calls :
          /\ Cardinality(RequestsOf(c)) <= 1
          /\ (pc[c] \in {"requested", "done"} /\ Composes(c)) =>
                Cardinality(RequestsOf(c)) = 1
          /\ (pc[c] = "done" /\ Composes(c) /\ response[c].fail) =>
                outcome[c] = HttpError("Io")

\* a call failed after its one request, another one got its Article after
\* its one request
C6_Witness ==
    \E c, d \in Calls :
        /\ pc[c] = "done" /\ outcome[c] = HttpError("Io")
        /\ Cardinality(RequestsOf(c)) = 1
        /\ pc[d] = "done" /\ outcome[d].kind = "Article"
        /\ Cardinality(RequestsOf(d)) = 1

\* what a call must resolve to, from its own resource and its own response
OwnOutcome(c) ==
    IF ~Composes(c) THEN HttpError("Uri")
    ELSE IF response[c].fail THEN HttpError("Io")
    ELSE DecodeBody(Flatten(response[c].chunks))

IsPrefix(s, t) == Len(s) <= Len(t) /\ s = SubSeq(t, 1, Len(s))

\* a call that is not resolved can take a step of its own
CanProceed(c) ==
    /\ pc[c] = "built" =>
          ENABLED (ResolveUriError(c) \/ \E resp \in Responses : SendRequest(c, resp))
    /\ pc[c] = "requested" =>
          ENABLED (ReceiveChunk(c) \/ TransportFailure(c) \/ Complete(c))

\* a step of one call leaves every other call as it was
OwnStep ==
    \A c \in Calls :
        (pc'[c] # pc[c] \/ buf'[c] # buf[c] \/ outcome'[c] # outcome[c]) =>
            \A d \in Calls \ {c} :
                /\ pc'[d] = pc[d] /\ buf'[d] = buf[d] /\ wire'[d] = wire[d]
                /\ outcome'[d] = outcome[d] /\ response'[d] = response[d]

\* C7: calls in flight together are independent under every interleaving:
\* each resolves to the outcome of its own resource and response, collects
\* only chunks of its own body, is left pending and able to go on when
\* another one resolves or fails
C7_Independent ==
    /\ [](\A c \in Calls :
             /\ pc[c] = "done" => outcome[c] = OwnOutcome(c)
             /\ pc[c] # "done" => outcome[c] = Pending
             /\ IsPrefix(buf[c], Flatten(response[c].chunks))
             /\ CanProceed(c))
    /\ [][OwnStep]_vars

\* the call that sent its request first resolved last, to an Article, after
\* the other one had failed
C7_Witness ==
    /\ Len(requests) = 2 /\ requests[1].call = 1
    /\ finished = <<2, 1>>
    /\ outcome[2] = HttpError("Io")
    /\ outcome[1].kind = "Article"


----------------------------------------------------------------------------
(* Reader (examples/rocket/src/reader.rs): callers on other threads send   *)
(* (cb, url) to the worker thread, which owns the event loop and the       *)
(* client, and wait for the reply on cb                                    *)

Callers == 1..NumCallers
ReaderUrls == {<<"https:", "//", "example.com">>, <<"no", " ", "uri">>}

\* what merc.parse(&url) resolves to when the server answers resp: the
\* future of lib.rs:207-221 run to its end
Resolve(url, resp) ==
    IF ~build_url(url).ok THEN HttpError("Uri")
    ELSE IF resp.fail THEN HttpError("Io")
    ELSE DecodeBody(Flatten(resp.chunks))

\* .map_err(Error::from): error.rs links the client's error as Mercury
FromMercury(r) ==
    [result |-> r, link |-> IF r.kind = "Article" THEN "" ELSE "Mercury"]
NoReply == [result |-> Pending, link |-> ""]

InitReader ==
    /\ rPc = [k \in Callers |-> "idle"]
    /\ rUrl = [k \in Callers |-> <<>>]
    /\ rQueue = <<>>
    /\ rCur = 0
    /\ rResp = [k \in Callers |-> NoResponse]
    /\ rSlot = [k \in Callers |-> 0]
    /\ rReply = [k \in Callers |-> NoReply]
    /\ rGot = [k \in Callers |-> NoReply]
    /\ rServed = <<>>
    /\ rSent = <<>>
    /\ DecodeUnused /\ ClientUnused

\* Reader::parse up to resp.wait(): a one-shot channel is made and the
\* message is put in the unbounded channel
ReaderParse(k, url) ==
    /\ rPc[k] = "idle"
    /\ rUrl' = [rUrl EXCEPT ![k] = url]
    /\ rQueue' = Append(rQueue, k)
    /\ rSent' = Append(rSent, k)
    /\ rPc' = [rPc EXCEPT ![k] = "waiting"]
    /\ UNCHANGED <<rCur, rResp, rSlot, rReply, rGot, rServed, decodeVars, clientVars>>

\* the newest message taken first
Dequeue_newest(q) == [msg |-> q[Len(q)], rest |-> SubSeq(q, 1, Len(q) - 1)]

\* the stream of the channel yields its oldest message
Dequeue(q) == [msg |-> Head(q), rest |-> Tail(q)]

\* rx.for_each: the closure is called with the next message once the future
\* it returned for the previous one is complete; it calls merc.parse(&url)
WorkerTake ==
    /\ rCur = 0 /\ rQueue # <<>>
    /\ rCur' = Dequeue(rQueue).msg
    /\ rQueue' = Dequeue(rQueue).rest
    /\ rServed' = Append(rServed, Dequeue(rQueue).msg)
    /\ UNCHANGED <<rPc, rUrl, rResp, rSlot, rReply, rGot, rSent, decodeVars, clientVars>>

\* the parse resolves, to an Article or an error:
\* .then(|result| cb.send(result).map_err(|_| ())); the receiver is held by
\* the waiting caller, so the send succeeds and for_each goes on
WorkerReply(resp) ==
    /\ rCur # 0
    /\ rResp' = [rResp EXCEPT ![rCur] = resp]
    /\ rReply' = [rReply EXCEPT ![rCur] = FromMercury(Resolve(rUrl[rCur], resp))]
    /\ rSlot' = [rSlot EXCEPT ![rCur] = @ + 1]
    /\ rCur' = 0
    /\ UNCHANGED <<rPc, rUrl, rQueue, rGot, rServed, rSent, decodeVars, clientVars>>

\* resp.wait()? returns the value sent on the one-shot channel
ReaderReturn(k) ==
    /\ rPc[k] = "waiting" /\ rSlot[k] > 0
    /\ rGot' = [rGot EXCEPT ![k] = rReply[k]]
    /\ rPc' = [rPc EXCEPT ![k] = "returned"]
    /\ UNCHANGED <<rUrl, rQueue, rCur, rResp, rSlot, rReply, rServed, rSent,
                   decodeVars, clientVars>>

NextReader ==
    \/ \E k \in Callers, url \in ReaderUrls : ReaderParse(k, url)
    \/ WorkerTake
    \/ \E resp \in Responses : WorkerReply(resp)
    \/ \E k \in Callers : ReaderReturn(k)

\* core.run(future::empty()) drives the spawned queue for ever, every parse
\* is assumed to end, and a caller blocked in wait() is woken by the send
SpecReader ==
    /\ InitReader /\ [][NextReader]_vars
    /\ WF_vars(WorkerTake)
    /\ WF_vars(\E resp \in Responses : WorkerReply(resp))
    /\ \A k \in Callers : WF_vars(ReaderReturn(k))

----------------------------------------------------------------------------
(* Properties of the Reader (SpecReader) *)

\* what the caller must get: the result of parsing its own url
OwnReply(k) ==
    LET r == IF ~ParseUri(ENDPOINT \o <<"?", "url=">> \o rUrl[k]).ok
             THEN HttpError("Uri")
             ELSE IF rResp[k].fail THEN HttpError("Io")
             ELSE DecodeBody(Flatten(rResp[k].chunks))
    IN [result |-> r, link |-> IF r.kind = "Article" THEN "" ELSE "Mercury"]

\* C10: every request accepted by Reader::parse gets exactly one reply on its
\* own one-shot channel, the result of parsing its own url; the worker takes
\* the requests one at a time in the order they were sent; an error is a
\* reply like any other and the requests sent after it are served
C10_ReaderReplies ==
    /\ [](/\ \A k \in Callers :
               /\ rSlot[k] <= 1
               /\ rPc[k] = "idle" => rSlot[k] = 0
               /\ rSlot[k] = 1 => rReply[k] = OwnReply(k)
               /\ rPc[k] = "returned" => rGot[k] = OwnReply(k) /\ rSlot[k] = 1
          /\ rServed \o rQueue = rSent
          /\ rCur # 0 => rServed[Len(rServed)] = rCur /\ rSlot[rCur] = 0)
    /\ \A k \in Callers : (rPc[k] = "waiting") ~> (rPc[k] = "returned")

\* the first request failed and the request sent after it was answered with
\* an Article
C10_Witness ==
    /\ rSent = <<1, 2>>
    /\ rPc[1] = "returned" /\ rGot[1].result.kind = "Http"
    /\ rPc[2] = "returned" /\ rGot[2].result.kind = "Article"

============================================================================
